---- MODULE Spec2Model ----
(***************************************************************************)
(* A model of spreadsheet_nofrills.py: the Expression classes, the formula *)
(* parser, Cell with its subscriber notification, the auto-creating        *)
(* CellDict, and the Spreadsheet entry points set_cell and get_cell.       *)
(*                                                                         *)
(* Python strings are sequences of one-character strings, so that          *)
(* str.split, tok[0], str.isnumeric, int() and str() are computed the way  *)
(* Python computes them.  A call of set_cell or get_cell is one action:    *)
(* the program is single threaded and every call runs to its return or to  *)
(* the exception that leaves it.                                           *)
(***************************************************************************)
EXTENDS Integers, Sequences, FiniteSets, TLC

VARIABLES cells, call, written, raised, ncalls

vars == <<cells, call, written, raised, ncalls>>

(***************************************************************************)
(* Bounds of the model.                                                    *)
(***************************************************************************)
\* object addresses the allocator hands out for CellRef objects: 1..MaxAddr
MaxAddr == 2
\* a call is left out when it would store a value above MaxVal
MaxVal == 10
\* nesting of set_value/notify frames at which the interpreter gives up
RecursionLimit == 12
\* calls a client makes in one run
MaxCalls == 3
\* calls a client makes in one run of the longer runs over fewer formulas
MaxDeepCalls == 4

(***************************************************************************)
(* Strings.                                                                *)
(***************************************************************************)
DigitChars == <<"0", "1", "2", "3", "4", "5", "6", "7", "8", "9">>

\* str.isnumeric on one character of the modelled alphabet
isnumeric(c) == \E i \in 1..Len(DigitChars) : DigitChars[i] = c

DigitVal(c) == (CHOOSE i \in 1..Len(DigitChars) : DigitChars[i] = c) - 1

\* str.isspace on one character
isspace(c) == c = " "

RECURSIVE StrNat(_)
\* str(n) for n >= 0
StrNat(n) ==
    IF n < 10 THEN <<DigitChars[n + 1]>>
    ELSE StrNat(n \div 10) \o <<DigitChars[(n % 10) + 1]>>

\* str(v) of a Python int
str(v) == IF v < 0 THEN <<"-">> \o StrNat(-v) ELSE StrNat(v)

RECURSIVE IntAcc(_, _)
IntAcc(tok, acc) ==
    IF tok = <<>> THEN [ok |-> TRUE, value |-> acc]
    ELSE IF ~isnumeric(Head(tok)) THEN [ok |-> FALSE, value |-> 0]
    ELSE IntAcc(Tail(tok), acc * 10 + DigitVal(Head(tok)))

\* int(tok) for a token whose first character is a digit: the decimal value,
\* or ValueError (ok = FALSE) when a later character is no digit
int(tok) == IntAcc(tok, 0)

RECURSIVE SplitAcc(_, _, _)
SplitAcc(raw, cur, done) ==
    IF raw = <<>> THEN (IF cur = <<>> THEN done ELSE Append(done, cur))
    ELSE IF isspace(Head(raw))
         THEN SplitAcc(Tail(raw), <<>>, IF cur = <<>> THEN done ELSE Append(done, cur))
         ELSE SplitAcc(Tail(raw), Append(cur, Head(raw)), done)

\* raw_expr.split(): the maximal runs of non-whitespace characters
split(raw) == SplitAcc(raw, <<>>, <<>>)

\* str(obj) of a CellRef object at address a: the class defines no __str__,
\* so it is object's "<__main__.CellRef object at 0x...>"
ObjectStr(a) == <<"<", "__main__.CellRef object at 0x", DigitChars[a + 1], ">">>

(***************************************************************************)
(* Expressions.                                                            *)
(***************************************************************************)
\* the absent expression parse_expr returns for a formula with no leaf
None == [type |-> "None"]

Value(v) == [type |-> "Value", value |-> v]

CellRef(tok, a) == [type |-> "CellRef", cell_ref |-> tok, addr |-> a]

\* Addition.__init__ with the right operand stored in both fields
AdditionRhsTwice(l, r) == [type |-> "Addition", lhs |-> r, rhs |-> r]

Addition(l, r) == [type |-> "Addition", lhs |-> l, rhs |-> r]

RECURSIVE RefsOf(_)
\* the CellRef objects an expression holds
RefsOf(e) ==
    IF e.type = "CellRef" THEN {e}
    ELSE IF e.type = "Addition" THEN RefsOf(e.lhs) \cup RefsOf(e.rhs)
    ELSE {}

(***************************************************************************)
(* Cells and the registry.                                                 *)
(***************************************************************************)
\* Cell.__init__ with a cached value that is not the default expression's
CellValueOne == [expression |-> Value(0), value |-> 1, subscribers |-> {}]

\* Cell.__init__: expression Value(0), value 0, no subscribers; the id is the
\* key the registry holds the cell under
Cell == [expression |-> Value(0), value |-> 0, subscribers |-> {}]

\* CellDict.__missing__ run on every lookup, for present keys too
missingOverwrites(cs, key) ==
    (key :> Cell) @@ [k \in DOMAIN cs \ {key} |-> cs[k]]

\* CellDict.__missing__ behind every cells[key]: an absent key is given a
\* fresh Cell, a present one is left as it is
missing(cs, key) ==
    IF key \in DOMAIN cs THEN cs ELSE (key :> Cell) @@ cs

\* Cell.get_value
get_value(cell) == cell.value

\* Spreadsheet.get_cell: the registry after the lookup and the value returned
get_cell(cs, id) ==
    LET cs1 == missing(cs, id)
    IN  [cells |-> cs1, value |-> get_value(cs1[id])]

\* Cell.add_subscriber
add_subscriber(cell, other) ==
    [cell EXCEPT !.subscribers = @ \cup {other}]

\* Spreadsheet.subscribe_cell(cell, dependent): dependent gains cell
subscribe_cell(cs, cell, dependent) ==
    [cs EXCEPT ![dependent] = add_subscriber(@, cell)]

RECURSIVE eval(_, _)
\* Expression.eval: the value, the registry after the lookups it made, and
\* AttributeError when it reaches the absent expression
eval(e, cs) ==
    IF e.type = "Value" THEN [cells |-> cs, value |-> e.value, status |-> "ok"]
    ELSE IF e.type = "CellRef" THEN
        LET g == get_cell(cs, e.cell_ref)
        IN  [cells |-> g.cells, value |-> g.value, status |-> "ok"]
    ELSE IF e.type = "Addition" THEN
        LET l == eval(e.lhs, cs)
        IN  IF l.status # "ok" THEN l
            ELSE LET r == eval(e.rhs, l.cells)
                 IN  IF r.status # "ok" THEN r
                     ELSE [cells |-> r.cells, value |-> l.value + r.value,
                           status |-> "ok"]
    ELSE [cells |-> cs, value |-> 0, status |-> "AttributeError"]

(***************************************************************************)
(* The parser.                                                             *)
(***************************************************************************)
\* Spreadsheet.parse_alphanumeric; a is the address a new CellRef would get
parse_alphanumeric(tok, a) ==
    IF isnumeric(tok[1])
    THEN LET n == int(tok)
         IN  IF n.ok THEN [status |-> "ok", calculable |-> Value(n.value)]
             ELSE [status |-> "ValueError", calculable |-> None]
    ELSE [status |-> "ok", calculable |-> CellRef(tok, a)]

\* one round of the token loop of parse_expr; p.free are the addresses the
\* allocator hands out next
ParseToken(p, tok) ==
    IF p.status # "ok" THEN p
    ELSE IF ~p.is_mid_expression /\ tok[1] = "+"
    THEN [p EXCEPT !.is_mid_expression = TRUE]
    ELSE
        LET r == parse_alphanumeric(tok, IF p.free = <<>> THEN 0 ELSE Head(p.free))
            isref == r.status = "ok" /\ r.calculable.type = "CellRef"
        IN  IF r.status # "ok" THEN [p EXCEPT !.status = r.status]
            ELSE [status |-> "ok",
                  is_mid_expression |-> FALSE,
                  prev_expression |->
                      IF p.is_mid_expression
                      THEN Addition(p.prev_expression, r.calculable)
                      ELSE r.calculable,
                  cell_refs |-> IF isref THEN p.cell_refs \cup {r.calculable}
                                ELSE p.cell_refs,
                  free |-> IF isref THEN Tail(p.free) ELSE p.free]

RECURSIVE ParseTokens(_, _)
ParseTokens(p, tokens) ==
    IF tokens = <<>> THEN p
    ELSE ParseTokens(ParseToken(p, Head(tokens)), Tail(tokens))

\* Spreadsheet.parse_expr: the expression and the set of CellRef objects
parse_expr(raw_expr, free) ==
    ParseTokens([status |-> "ok", is_mid_expression |-> FALSE,
                 prev_expression |-> None, cell_refs |-> {}, free |-> free],
                split(raw_expr))

(***************************************************************************)
(* Propagation.  st is the run of one set_cell so far: the registry, the   *)
(* status ("ok" or the exception that is unwinding) and, for every cell,   *)
(* how many times notify was called on it.  ord gives, for every cell, the *)
(* order in which Python iterates its subscribers set.                     *)
(***************************************************************************)
RECURSIVE SetToSeq(_)
SetToSeq(S) ==
    IF S = {} THEN <<>>
    ELSE LET x == CHOOSE y \in S : TRUE IN <<x>> \o SetToSeq(S \ {x})

\* the subscribers of k in iteration order: ord holds the order of every set
\* that has more than one
SubscribersInOrder(st, ord, k) ==
    IF k \in DOMAIN ord THEN ord[k] ELSE SetToSeq(st.cells[k].subscribers)

CountNotify(notified, k) ==
    IF k \in DOMAIN notified
    THEN [notified EXCEPT ![k] = @ + 1]
    ELSE (k :> 1) @@ notified

RECURSIVE set_value(_, _, _, _, _), notify(_, _, _, _), NotifyEach(_, _, _, _)

\* Cell.set_value on the cell k, running in stack frame number depth
set_value(st, k, expression, depth, ord) ==
    IF depth > RecursionLimit THEN [st EXCEPT !.status = "RecursionError"]
    ELSE
        LET stored == [st.cells EXCEPT ![k].expression = expression]
            ev == eval(expression, stored)
        IN  IF ev.status # "ok"
            THEN [st EXCEPT !.cells = ev.cells, !.status = ev.status]
            ELSE NotifyEach(
                     [st EXCEPT !.cells = [ev.cells EXCEPT ![k].value = ev.value]],
                     SubscribersInOrder(st, ord, k), depth + 1, ord)

\* Cell.notify on the cell k: set_value, which notifies the subscribers, and
\* then the loop over the subscribers of notify itself
notify(st, k, depth, ord) ==
    IF depth > RecursionLimit THEN [st EXCEPT !.status = "RecursionError"]
    ELSE
        LET entered == [st EXCEPT !.notified = CountNotify(@, k)]
            s1 == set_value(entered, k, entered.cells[k].expression, depth + 1, ord)
        IN  IF s1.status # "ok" THEN s1
            ELSE NotifyEach(s1, SubscribersInOrder(st, ord, k), depth + 1, ord)

\* for s in self.subscribers: s.notify()
NotifyEach(st, subs, depth, ord) ==
    IF subs = <<>> \/ st.status # "ok" THEN st
    ELSE NotifyEach(notify(st, Head(subs), depth, ord), Tail(subs), depth, ord)

\* the orders a set can be iterated in
Perms(S) ==
    {f \in [1..Cardinality(S) -> S] : \A i, j \in 1..Cardinality(S) : f[i] = f[j] => i = j}

RECURSIVE IterationOrders(_, _)
\* one iteration order for the subscribers set of every cell in keys
IterationOrders(cs, keys) ==
    IF keys = {} THEN {<<>>}
    ELSE LET k == CHOOSE x \in keys : TRUE
         IN  {(k :> p) @@ f : p \in Perms(cs[k].subscribers),
                              f \in IterationOrders(cs, keys \ {k})}

\* the addresses of the CellRef objects that are alive: those the stored
\* expressions hold
LiveAddrs(cs) ==
    {r.addr : r \in UNION {RefsOf(cs[k].expression) : k \in DOMAIN cs}}

RECURSIVE SubscribeEach(_, _, _)
\* for subscribee in cell_refs: the cell under str(subscribee) gains the target
SubscribeEach(cs, target, refs) ==
    IF refs = {} THEN cs
    ELSE LET subscribee == CHOOSE r \in refs : TRUE
             key == ObjectStr(subscribee.addr)
         IN  SubscribeEach(subscribe_cell(missing(cs, key), target, key),
                           target, refs \ {subscribee})

\* set_cell with the subscriptions made before the evaluation and the cascade
set_cellSubscribesFirst(cs, id, raw_expr, free, ord) ==
    LET cs1 == missing(cs, id)
        p == parse_expr(raw_expr, free)
        start == [cells |-> cs1, status |-> "ok", notified |-> <<>>]
    IN  IF p.status # "ok" THEN [start EXCEPT !.status = p.status]
        ELSE set_value([start EXCEPT !.cells = SubscribeEach(@, id, p.cell_refs)],
                       id, p.prev_expression, 2, ord)

\* Spreadsheet.set_cell(id, raw_expr): the run of the whole call.  free is
\* the order in which the allocator hands out the addresses not in use.
set_cell(cs, id, raw_expr, free, ord) ==
    LET cs1 == missing(cs, id)
        p == parse_expr(raw_expr, free)
        start == [cells |-> cs1, status |-> "ok", notified |-> <<>>]
    IN  IF p.status # "ok" THEN [start EXCEPT !.status = p.status]
        ELSE LET s1 == set_value(start, id, p.prev_expression, 2, ord)
             IN  IF s1.status # "ok" THEN s1
                 ELSE [s1 EXCEPT !.cells = SubscribeEach(@, id, p.cell_refs)]

(***************************************************************************)
(* The calls a client makes.                                               *)
(***************************************************************************)
A1 == <<"A", "1">>
B1 == <<"B", "1">>

Ids == {A1, B1}

Addrs == 1..MaxAddr

\* an identifier is any string: the clients of the model use the cell names
\* and the strings under which set_cell has registered cells itself
CallerIds(cs) == Ids \cup {k \in DOMAIN cs : \E a \in Addrs : k = ObjectStr(a)}

\* the integers v of the calls set_cell(X, str(v))
Ints == {-1, 2, 3}

Formulas ==
    {str(v) : v \in Ints}
    \cup { A1,
           A1 \o <<" ", "+", " ">> \o B1,
           <<"8", " ", "+", " ">> \o B1,
           B1 \o <<" ", "+", " ", "7">>,
           A1 \o <<" ", "+", " ", "+", "5">>,
           <<>>,
           <<" ", " ">>,
           <<"#", "x">> }

Init ==
    /\ cells = <<>>
    /\ call = [op |-> "none", id |-> <<>>, raw_expr |-> <<>>, status |-> "ok",
               value |-> 0, notified |-> <<>>]
    /\ written = {}
    /\ raised = FALSE
    /\ ncalls = 0

\* the number of CellRef objects parse_expr creates for raw_expr
RefCount(raw_expr) ==
    LET spare == [i \in 1..Len(raw_expr) |-> 0]
    IN  Len(spare) - Len(parse_expr(raw_expr, spare).free)

\* the ways the allocator can place n new objects at addresses not in use
Allocations(n, unused) ==
    {f \in [1..n -> unused] : \A i, j \in 1..n : f[i] = f[j] => i = j}

\* the cells whose subscribers set has more than one iteration order
Crowded(cs) == {k \in DOMAIN cs : Cardinality(cs[k].subscribers) > 1}

\* sheet.set_cell(id, raw_expr)
SetCellStep(id, raw_expr) ==
    /\ \E free \in Allocations(RefCount(raw_expr), Addrs \ LiveAddrs(cells)) :
       \E ord \in IterationOrders(cells, Crowded(cells)) :
       \E r \in {set_cell(cells, id, raw_expr, free, ord)} :
            /\ \A k \in DOMAIN r.cells : r.cells[k].value <= MaxVal
            /\ cells' = r.cells
            /\ call' = [op |-> "set_cell", id |-> id, raw_expr |-> raw_expr,
                        status |-> r.status, value |-> 0, notified |-> r.notified]
            /\ written' = written \cup {id}
            /\ raised' = (raised \/ r.status # "ok")
            /\ ncalls' = ncalls + 1

SetCell(id, raw_expr) == ncalls < MaxCalls /\ SetCellStep(id, raw_expr)

\* sheet.get_cell(id)
GetCellStep(id) ==
    /\ \E g \in {get_cell(cells, id)} :
            /\ cells' = g.cells
            /\ call' = [op |-> "get_cell", id |-> id, raw_expr |-> <<>>,
                        status |-> "ok", value |-> g.value, notified |-> <<>>]
            /\ UNCHANGED <<written, raised>>
            /\ ncalls' = ncalls + 1

GetCell(id) == ncalls < MaxCalls /\ GetCellStep(id)

Next ==
    \/ \E id \in CallerIds(cells), raw_expr \in Formulas : SetCell(id, raw_expr)
    \/ \E id \in CallerIds(cells) : GetCell(id)

Spec == Init /\ [][Next]_vars

\* longer runs of calls over fewer formulas: a literal and the references to
\* the two cell names
DeepFormulas == { <<"2">>, A1, B1 }

DeepNext ==
    \/ /\ ncalls < MaxDeepCalls
       /\ \E id \in CallerIds(cells), raw_expr \in DeepFormulas :
              SetCellStep(id, raw_expr)
    \/ /\ ncalls < MaxDeepCalls
       /\ \E id \in CallerIds(cells) : GetCellStep(id)

SpecDeep == Init /\ [][DeepNext]_vars

(***************************************************************************)
(* Notions the properties are stated with.                                 *)
(***************************************************************************)
AlphaChars ==
    {"A", "B", "C", "D", "E", "F", "G", "H", "I", "J", "K", "L", "M",
     "N", "O", "P", "Q", "R", "S", "T", "U", "V", "W", "X", "Y", "Z",
     "a", "b", "c", "d", "e", "f", "g", "h", "i", "j", "k", "l", "m",
     "n", "o", "p", "q", "r", "s", "t", "u", "v", "w", "x", "y", "z"}

\* str.isalpha on one character
isalpha(c) == c \in AlphaChars

Tokens(raw_expr) == {split(raw_expr)[i] : i \in 1..Len(split(raw_expr))}

\* the identifiers that appear as references in a formula
FormulaRefs(raw_expr) ==
    {r.cell_ref :
        r \in parse_expr(raw_expr, [i \in 1..Len(raw_expr) |-> i]).cell_refs}

\* the identifiers the stored formula of cell k references
CellDeps(cs, k) == {r.cell_ref : r \in RefsOf(cs[k].expression)}

RECURSIVE DepsClosure(_, _, _)
DepsClosure(cs, frontier, seen) ==
    IF frontier = {} THEN seen
    ELSE LET next == UNION {CellDeps(cs, k) : k \in frontier \cap DOMAIN cs}
         IN  DepsClosure(cs, next \ seen, seen \cup next)

\* the identifiers cell k references directly or transitively
TransitiveDeps(cs, k) == DepsClosure(cs, {k}, {})

\* the reference graph of the current formulas has no cycle
Acyclic(cs) == \A k \in DOMAIN cs : k \notin TransitiveDeps(cs, k)

\* the cells whose current formula references x directly or transitively
Dependents(cs, x) == {k \in DOMAIN cs : x \in TransitiveDeps(cs, k)}

\* the value of cell k equals its stored expression evaluated now
Fresh(cs, k) ==
    LET ev == eval(cs[k].expression, cs)
    IN  ev.status = "ok" /\ ev.value = cs[k].value

NotifiedTimes(k) == IF k \in DOMAIN call.notified THEN call.notified[k] ELSE 0

SetCellReturned == call.op = "set_cell" /\ call.status = "ok"

(***************************************************************************)
(* C1.  While every set_cell so far has returned and the reference graph   *)
(* of the current formulas is acyclic, every registered cell's value       *)
(* equals the evaluation of its own stored expression against the current  *)
(* values of the cells it references.                                      *)
(***************************************************************************)
C1_ValuesNeverStale ==
    (~raised /\ Acyclic(cells)) => \A k \in DOMAIN cells : Fresh(cells, k)

(***************************************************************************)
(* C2.  After set_cell(X, f) returns, every cell identifier Y (a token     *)
(* that starts with a letter) referenced in f is registered and has X in   *)
(* its subscribers set.                                                    *)
(***************************************************************************)
C2_ReferencedCellGainsTarget ==
    SetCellReturned =>
        \A y \in FormulaRefs(call.raw_expr) :
            isalpha(y[1]) => (y \in DOMAIN cells /\ call.id \in cells[y].subscribers)

(***************************************************************************)
(* C3.  During one set_cell(X, f) that returns on an acyclic graph, every  *)
(* cell that transitively depends on X is notified exactly once.           *)
(***************************************************************************)
C3_DependentsNotifiedOnce ==
    (SetCellReturned /\ Acyclic(cells)) =>
        \A k \in Dependents(cells, call.id) : NotifiedTimes(k) = 1

(***************************************************************************)
(* C4.  For every integer v, negative ones too, set_cell(X, str(v))        *)
(* returns and get_cell(X) then gives v.                                   *)
(***************************************************************************)
C4_IntegerRoundTrip ==
    \A v \in Ints :
        (call.op = "set_cell" /\ call.raw_expr = str(v)) =>
            (call.status = "ok" /\ get_cell(cells, call.id).value = v)

(***************************************************************************)
(* C5.  get_cell never fails, also after failed set_cell calls: it returns *)
(* the integer the cell holds, registers the cell it is asked for, and for *)
(* an identifier that was never the target of set_cell it returns 0.       *)
(***************************************************************************)
C5_GetCellTotalAndZero ==
    /\ \A id \in CallerIds(cells) :
           LET g == get_cell(cells, id)
           IN  /\ g.value \in Int
               /\ id \in DOMAIN g.cells
               /\ id \notin written => g.value = 0
    /\ call.op = "get_cell" =>
           /\ call.status = "ok"
           /\ call.id \in DOMAIN cells
           /\ call.value = cells[call.id].value
           /\ call.id \notin written => call.value = 0

\* get_cell has answered 0 for an identifier no set_cell targeted, after a
\* set_cell that raised
C5_Witness ==
    /\ call.op = "get_cell"
    /\ call.id \notin written
    /\ raised
    /\ call.value = 0

(***************************************************************************)
(* C6.  set_cell with an empty or whitespace-only formula fails with       *)
(* ParseError and with no other kind of error.                             *)
(***************************************************************************)
C6_EmptyFormulaParseError ==
    (call.op = "set_cell" /\ split(call.raw_expr) = <<>>) =>
        call.status = "ParseError"

(***************************************************************************)
(* C7.  set_cell fails with ParseError whenever some token of the formula  *)
(* starts with a character that is neither a digit, a letter nor '+'.      *)
(***************************************************************************)
C7_BadFirstCharParseError ==
    (/\ call.op = "set_cell"
     /\ \E tok \in Tokens(call.raw_expr) :
            ~isnumeric(tok[1]) /\ ~isalpha(tok[1]) /\ tok[1] # "+") =>
        call.status = "ParseError"

RECURSIVE Decimal(_)
\* the number a string of decimal digits denotes
Decimal(tok) ==
    IF tok = <<>> THEN 0
    ELSE Decimal(SubSeq(tok, 1, Len(tok) - 1)) * 10 + DigitVal(tok[Len(tok)])

IsLiteral(tok) == \A i \in 1..Len(tok) : isnumeric(tok[i])

IsIdentifier(tok) ==
    isalpha(tok[1]) /\ \A i \in 1..Len(tok) : isalpha(tok[i]) \/ isnumeric(tok[i])

\* t1 + t2 + ... + tn: operands at the odd places, a lone "+" between them
IsSum(tokens) ==
    /\ Len(tokens) % 2 = 1
    /\ \A i \in 1..Len(tokens) :
           IF i % 2 = 1 THEN IsLiteral(tokens[i]) \/ IsIdentifier(tokens[i])
           ELSE tokens[i] = <<"+">>

\* what an operand contributes against the registry cs
Operand(tok, cs) ==
    IF IsLiteral(tok) THEN Decimal(tok)
    ELSE IF tok \in DOMAIN cs THEN cs[tok].value ELSE 0

RECURSIVE SumOf(_, _)
SumOf(tokens, cs) ==
    IF tokens = <<>> THEN 0
    ELSE IF Len(tokens) = 1 THEN Operand(tokens[1], cs)
    ELSE Operand(tokens[1], cs) + SumOf(SubSeq(tokens, 3, Len(tokens)), cs)

(***************************************************************************)
(* C8.  A set_cell that returns for a formula t1 + t2 + ... + tn stores in *)
(* the target the sum of the operands: a literal counts as its integer, an *)
(* identifier as the value that cell has when the formula is evaluated     *)
(* (0 for a cell not yet registered).                                      *)
(***************************************************************************)
C8_StoresSumOfOperands ==
    [][(/\ call'.op = "set_cell"
        /\ call'.status = "ok"
        /\ IsSum(split(call'.raw_expr))) =>
           cells'[call'.id].value = SumOf(split(call'.raw_expr), cells)]_vars

\* "8 + B1" has been written to another cell while B1 holds 2, and gave 10
C8_Witness ==
    /\ SetCellReturned
    /\ call.raw_expr = <<"8", " ", "+", " ">> \o B1
    /\ B1 \in DOMAIN cells
    /\ cells[B1].value = 2
    /\ cells[call.id].value = 10

(***************************************************************************)
(* C9.  Rewriting a cell X to drop a reference does not unsubscribe it:    *)
(* when X, whose formula referenced another cell identifier Y, is          *)
(* rewritten with a formula that does not reference Y, X is in Y's         *)
(* subscribers afterwards (and so would be re-evaluated by the next write  *)
(* to Y).                                                                  *)
(***************************************************************************)
C9_DroppedReferenceStaysSubscribed ==
    [][(/\ call'.op = "set_cell"
        /\ call'.status = "ok"
        /\ ~raised
        /\ call'.id \in DOMAIN cells) =>
           \A y \in CellDeps(cells, call'.id) \ FormulaRefs(call'.raw_expr) :
               (isalpha(y[1]) /\ y # call'.id) =>
                   (y \in DOMAIN cells' /\ call'.id \in cells'[y].subscribers)]_vars

(***************************************************************************)
(* C10.  Writing the same formula to the same cell twice in a row is       *)
(* idempotent: the second set_cell(X, f), for a formula f = t1 + ... + tn  *)
(* that does not reference X itself, leaves the registered cells, their    *)
(* values and their subscribers sets as the first left them.               *)
(***************************************************************************)
C10_SecondWriteChangesNothing ==
    [][(/\ SetCellReturned
        /\ IsSum(split(call.raw_expr))
        /\ call.id \notin FormulaRefs(call.raw_expr)
        /\ call'.op = "set_cell"
        /\ call'.status = "ok"
        /\ call'.id = call.id
        /\ call'.raw_expr = call.raw_expr) =>
           /\ DOMAIN cells' = DOMAIN cells
           /\ \A k \in DOMAIN cells :
                  /\ cells'[k].value = cells[k].value
                  /\ cells'[k].subscribers = cells[k].subscribers]_vars

(***************************************************************************)
(* C11.  Once the stored formulas form a cycle through a cell X (X         *)
(* references itself directly or through other cells), a following         *)
(* set_cell on X does not return: its notify calls recur without bound     *)
(* (in Python, until the interpreter raises RecursionError).               *)
(***************************************************************************)
C11_WriteIntoCycleNeverReturns ==
    [][(/\ call'.op = "set_cell"
        /\ ~raised
        /\ call'.id \in DOMAIN cells
        /\ call'.id \in TransitiveDeps(cells, call'.id)) =>
           call'.status # "ok"]_vars

(***************************************************************************)
(* C14.  A token beginning with '+' is never parsed as a leaf, whatever    *)
(* the expecting-operand flag is when it is read: no reference the parser  *)
(* collects for a formula, and no cell a set_cell registers, is named by   *)
(* such a token.                                                           *)
(***************************************************************************)
C14_PlusTokenNeverLeaf ==
    call.op = "set_cell" =>
        /\ \A y \in FormulaRefs(call.raw_expr) : y[1] # "+"
        /\ \A k \in DOMAIN cells : k[1] # "+"

(***************************************************************************)
(* C15.  get_cell is a pure cached read: it leaves every registered cell   *)
(* (expression, value, subscribers) as it was, notifies nothing, returns   *)
(* the value the cell held, and can only add a default cell for the        *)
(* identifier it was asked for.                                            *)
(***************************************************************************)
C15_GetCellIsCachedRead ==
    [][call'.op = "get_cell" =>
           /\ \A k \in DOMAIN cells : k \in DOMAIN cells' /\ cells'[k] = cells[k]
           /\ DOMAIN cells' = DOMAIN cells \cup {call'.id}
           /\ call'.id \notin DOMAIN cells => cells'[call'.id] = Cell
           /\ call'.id \in DOMAIN cells => call'.value = cells[call'.id].value
           /\ call'.notified = <<>>]_vars

\* get_cell has read a cell holding a reference whose cached value is not
\* what its expression would evaluate to now, and has returned the cache
C15_Witness ==
    /\ call.op = "get_cell"
    /\ cells[call.id].expression.type = "CellRef"
    /\ ~Fresh(cells, call.id)
    /\ call.value = cells[call.id].value

(***************************************************************************)
(* C16.  A set_cell that fails leaves the sheet as it was: the target's    *)
(* stored expression and value and every subscribers set are unchanged.    *)
(***************************************************************************)
C16_FailedWriteChangesNothing ==
    [][(/\ call'.op = "set_cell"
        /\ call'.status # "ok"
        /\ call'.id \in DOMAIN cells) =>
           /\ cells'[call'.id].expression = cells[call'.id].expression
           /\ cells'[call'.id].value = cells[call'.id].value
           /\ \A k \in DOMAIN cells :
                  cells'[k].subscribers = cells[k].subscribers]_vars

(***************************************************************************)
(* C17.  The registry's keys are identifiers a caller used: a call only    *)
(* registers the identifier it was given (the target of set_cell, the      *)
(* argument of get_cell) and the cell identifiers that are tokens of the   *)
(* formula it was given.                                                   *)
(***************************************************************************)
C17_OnlyCallerIdentifiersRegistered ==
    [][\A k \in DOMAIN cells' \ DOMAIN cells :
           k = call'.id \/ k \in Tokens(call'.raw_expr)]_vars

(***************************************************************************)
(* C19.  A set_cell(X, f) that returns with the reference graph acyclic    *)
(* changes the stored expression of X only, and leaves the value of every  *)
(* other cell whose formula does not reference X, directly or              *)
(* transitively, as it was.                                                *)
(***************************************************************************)
C19_UnrelatedCellsKeepValue ==
    [][(/\ call'.op = "set_cell"
        /\ call'.status = "ok"
        /\ ~raised
        /\ Acyclic(cells')) =>
           \A k \in DOMAIN cells \ {call'.id} :
               /\ cells'[k].expression = cells[k].expression
               /\ call'.id \notin TransitiveDeps(cells', k) =>
                      cells'[k].value = cells[k].value]_vars

\* the cells a cascade that starts at x can reach over the subscriber edges
\* of the registry cs
RECURSIVE SubscribersClosure(_, _, _)
SubscribersClosure(cs, frontier, seen) ==
    IF frontier = {} THEN seen
    ELSE LET next == UNION {cs[k].subscribers : k \in frontier \cap DOMAIN cs}
         IN  SubscribersClosure(cs, next \ seen, seen \cup next)

CascadeReach(cs, x) == SubscribersClosure(cs, {x}, {})

(***************************************************************************)
(* C12.  A set_cell with a well-formed formula t1 + ... + tn terminates    *)
(* whenever the reference graph of the current formulas after the write    *)
(* is acyclic: it never runs into the recursion limit, whatever the        *)
(* formulas that have since been overwritten referenced.                   *)
(***************************************************************************)
C12_AcyclicWriteTerminates ==
    (/\ call.op = "set_cell"
     /\ IsSum(split(call.raw_expr))
     /\ Acyclic(cells)) => call.status # "RecursionError"

(***************************************************************************)
(* C13.  Within one set_cell(X, f) the cascade only follows the subscriber *)
(* edges that existed before the call: every cell it notifies is reachable *)
(* from X over the edges of the state before.  A returning write of a      *)
(* formula that references X, to an X no edge led back to, evaluates       *)
(* against the value X had before (0 if X was not registered) and does not *)
(* notify X; the cells the formula references are subscribed only in the   *)
(* state after.                                                            *)
(***************************************************************************)
C13_CascadeFollowsOldEdges ==
    [][call'.op = "set_cell" =>
          /\ \A k \in DOMAIN call'.notified : k \in CascadeReach(cells, call'.id)
          /\ (/\ call'.status = "ok"
              /\ IsSum(split(call'.raw_expr))
              /\ call'.id \in FormulaRefs(call'.raw_expr)
              /\ call'.id \notin CascadeReach(cells, call'.id)) =>
                 /\ call'.id \notin DOMAIN call'.notified
                 /\ cells'[call'.id].value = SumOf(split(call'.raw_expr), cells)]_vars

\* A1 held 2 when the formula A1 was first written to it: the call returned,
\* notified nothing, left A1 at 2, and the subscription exists afterwards
C13_Witness ==
    /\ call.op = "set_cell"
    /\ call.status = "ok"
    /\ call.id = A1
    /\ call.raw_expr = A1
    /\ call.notified = <<>>
    /\ cells[A1].value = 2
    /\ \E k \in DOMAIN cells : A1 \in cells[k].subscribers

(***************************************************************************)
(* C18.  On an acyclic dependency graph the values of all cells after a    *)
(* set_cell that returns do not depend on the order in which the           *)
(* subscribers sets are iterated: from every state reached without a       *)
(* failed call, any two runs of the same next write that differ only in    *)
(* the iteration orders end in the same cell values.                       *)
(***************************************************************************)
C18_IterationOrderIrrelevant ==
    (~raised /\ Acyclic(cells)) =>
        \A id \in CallerIds(cells), raw_expr \in DeepFormulas :
        \A free \in Allocations(RefCount(raw_expr), Addrs \ LiveAddrs(cells)) :
        \A o1, o2 \in IterationOrders(cells, Crowded(cells)) :
            LET r1 == set_cell(cells, id, raw_expr, free, o1)
                r2 == set_cell(cells, id, raw_expr, free, o2)
            IN  (r1.status = "ok" /\ r2.status = "ok" /\ Acyclic(r1.cells)) =>
                    \A k \in DOMAIN r1.cells : r2.cells[k].value = r1.cells[k].value

====
